---- MODULE Spec2Model ----
(***************************************************************************)
(* pyBPL: the uniform cubic B-spline engine (pybpl/splines.py) and the     *)
(* relation / relation-token layer built on it (pybpl/relation.py).        *)
(*                                                                         *)
(* Real numbers are exact rationals [n, d] in lowest terms with d > 0;     *)
(* the one non-number a division can produce here, 0/0, is NaN.            *)
(* Log-probabilities are extended values: -inf, +inf, nan, or a finite     *)
(* value kept in symbolic form.                                            *)
(***************************************************************************)
EXTENDS Integers, Sequences, FiniteSets, TLC

VARIABLES ret, rel, token, pc, source, pos, ll, eval_spot_token

vars == <<ret, rel, token, pc, source, pos, ll, eval_spot_token>>

relvars == <<rel, token, pc, source, pos, ll, eval_spot_token>>

(***************************************************************************)
(* Bounds of the model                                                     *)
(***************************************************************************)
\* largest number of control points (landmarks) of a spline
MaxLand == 4

\* largest sample count handed to bspline_gen_s / get_stk_from_bspline
MaxEval == 4

\* length of the (cyclic) sequence of Normal draws the sampler consumes
MaxDraws == 2

\* largest lib.ncpt of a library
MaxNcpt == 2

(***************************************************************************)
(* Exact arithmetic                                                        *)
(***************************************************************************)
Abs(x) == IF x < 0 THEN -x ELSE x

RECURSIVE GCD(_, _)
GCD(a, b) == IF b = 0 THEN a ELSE GCD(b, a % b)

\* the rational n/d in lowest terms, d > 0
R(n, d) ==
    LET g == GCD(Abs(n), Abs(d))
        sg == IF d < 0 THEN -1 ELSE 1
    IN  [n |-> sg * (n \div g), d |-> sg * (d \div g)]

RI(k) == [n |-> k, d |-> 1]

NaN == [n |-> 0, d |-> 0]

IsNaN(a) == a.d = 0

RAdd(a, b) == IF IsNaN(a) \/ IsNaN(b) THEN NaN ELSE R(a.n * b.d + b.n * a.d, a.d * b.d)

RSub(a, b) == IF IsNaN(a) \/ IsNaN(b) THEN NaN ELSE R(a.n * b.d - b.n * a.d, a.d * b.d)

RMul(a, b) == IF IsNaN(a) \/ IsNaN(b) THEN NaN ELSE R(a.n * b.n, a.d * b.d)

\* float division: 0/0 is nan (a non-zero numerator over 0 does not occur here)
RDiv(a, b) == IF IsNaN(a) \/ IsNaN(b) \/ b.n = 0 THEN NaN ELSE R(a.n * b.d, a.d * b.n)

\* comparisons with nan are false, as in IEEE arithmetic
RLt(a, b) == ~IsNaN(a) /\ ~IsNaN(b) /\ a.n * b.d < b.n * a.d

RLe(a, b) == ~IsNaN(a) /\ ~IsNaN(b) /\ a.n * b.d <= b.n * a.d

RAbs(a) == [n |-> Abs(a.n), d |-> a.d]

RPow2(a) == RMul(a, a)

RPow3(a) == RMul(a, RMul(a, a))

\* math.ceil of a rational
Ceil(a) == -((-a.n) \div a.d)

Max(a, b) == IF a >= b THEN a ELSE b

Min(a, b) == IF a <= b THEN a ELSE b

RECURSIVE RSum(_)
RSum(seq) == IF seq = <<>> THEN RI(0) ELSE RAdd(Head(seq), RSum(Tail(seq)))

(***************************************************************************)
(* splines.py                                                              *)
(***************************************************************************)
\* the four polynomial pieces of the uniform cubic B-spline basis, each over 6
Piece1(diff) == RDiv(RPow3(diff), RI(6))

\* the bug: a sign slip in the second piece, - 3*diff for + 3*diff
Piece2_mut(diff) ==
    RDiv(RAdd(RSub(RAdd(RMul(RI(-3), RPow3(diff)), RMul(RI(3), RPow2(diff))),
                   RMul(RI(3), diff)), RI(1)), RI(6))

Piece2(diff) ==
    RDiv(RAdd(RAdd(RAdd(RMul(RI(-3), RPow3(diff)), RMul(RI(3), RPow2(diff))),
                   RMul(RI(3), diff)), RI(1)), RI(6))

Piece3(diff) ==
    RDiv(RAdd(RSub(RMul(RI(3), RPow3(diff)), RMul(RI(6), RPow2(diff))), RI(4)), RI(6))

Piece4(diff) == RDiv(RPow3(RSub(RI(1), diff)), RI(6))

\* one entry of the matrix C of vectorized_bspline_coeff: the four masked
\* assignments sel1..sel4 applied in the order of the code to a zero entry
bspline_coeff(vi, vs) ==
    LET C0 == RI(0)
        sel1 == RLe(vi, vs) /\ RLt(vs, RAdd(vi, RI(1)))
        C1 == IF sel1 THEN Piece1(RSub(vs, vi)) ELSE C0
        sel2 == RLe(RAdd(vi, RI(1)), vs) /\ RLt(vs, RAdd(vi, RI(2)))
        C2 == IF sel2 THEN Piece2(RSub(RSub(vs, vi), RI(1))) ELSE C1
        sel3 == RLe(RAdd(vi, RI(2)), vs) /\ RLt(vs, RAdd(vi, RI(3)))
        C3 == IF sel3 THEN Piece3(RSub(RSub(vs, vi), RI(2))) ELSE C2
        sel4 == RLe(RAdd(vi, RI(3)), vs) /\ RLt(vs, RAdd(vi, RI(4)))
        C4 == IF sel4 THEN Piece4(RSub(RSub(vs, vi), RI(3))) ELSE C3
    IN  C4

\* vi, vs: (neval, nland) matrices of equal shape, as sequences of rows
vectorized_bspline_coeff(vi, vs) ==
    [r \in DOMAIN vi |-> [c \in DOMAIN vi[r] |-> bspline_coeff(vi[r][c], vs[r][c])]]

\* torch.linspace(lb, ub, steps); steps >= 2 here, 0 steps give the empty tensor
linspace(lb, ub, steps) ==
    [j \in 1..steps |->
        RAdd(lb, RMul(RI(j - 1), RDiv(RSub(ub, lb), RI(steps - 1))))]

\* the bug: the step is (ub - lb) / steps, so the last value falls short of ub
bspline_gen_s_mut(nland, neval) ==
    LET lb == RI(2)
        ub == RI(nland + 1)
    IN  [s |-> IF neval = 1 THEN <<ub>>
               ELSE [j \in 1..neval |->
                       RAdd(lb, RMul(RI(j - 1), RDiv(RSub(ub, lb), RI(neval))))],
         lb |-> lb, ub |-> ub]

bspline_gen_s(nland, neval) ==
    LET lb == RI(2)
        ub == RI(nland + 1)
    IN  [s |-> IF neval = 1 THEN <<lb>> ELSE linspace(lb, ub, neval),
         lb |-> lb, ub |-> ub]

RowSum(row) == RSum(row)

\* Cof = A / torch.sum(A, dim=1, keepdim=True)
Normalize(A) ==
    [r \in DOMAIN A |-> [c \in DOMAIN A[r] |-> RDiv(A[r][c], RowSum(A[r]))]]

\* X = Cof @ Y
MatMul(Cof, Y) ==
    [r \in DOMAIN Cof |->
        <<RSum([c \in DOMAIN Y |-> RMul(Cof[r][c], Y[c][1])]),
          RSum([c \in DOMAIN Y |-> RMul(Cof[r][c], Y[c][2])])>>]

EvalResult(A, Cof, Y) == [X |-> MatMul(Cof, Y), Cof |-> Cof, A |-> A]

EvalFrom(A, Y) == EvalResult(A, Normalize(A), Y)

\* bspline_eval(s, Y): s a sequence of parameters (a 0-d tensor is viewed as a
\* vector of length 1), Y a sequence of 2-D control points.  Returns X and Cof;
\* the raw weights A are kept beside them.
bspline_eval(s, Y) ==
    EvalFrom(vectorized_bspline_coeff(
                 [r \in DOMAIN s |-> [c \in DOMAIN Y |-> RI(c - 1)]],
                 [r \in DOMAIN s |-> [c \in DOMAIN Y |-> s[r]]]),
             Y)

\* util.stroke.dist_along_traj: the sum of the distances between consecutive
\* points.  The trajectories measured here lie on one horizontal or vertical
\* line (see CollinearYs), where the Euclidean distance is |dx| or |dy|.
seg_len(p, q) == IF p[2] = q[2] THEN RAbs(RSub(q[1], p[1])) ELSE RAbs(RSub(q[2], p[2]))

dist_along_traj(stk) ==
    RSum([k \in 1..(Len(stk) - 1) |-> seg_len(stk[k], stk[k + 1])])

\* the bug: the upper threshold min(neval, max_neval) is missing
get_stk_from_bspline_mut(Y, has_neval, neval_arg, params) ==
    LET nland == Len(Y)
        min_neval == params.spline_min_neval
        stk == bspline_eval(bspline_gen_s(nland, min_neval).s, Y).X
        neval1 == Ceil(RDiv(dist_along_traj(stk), params.spline_grain))
        neval == IF has_neval THEN neval_arg ELSE Max(neval1, min_neval)
    IN  [X |-> bspline_eval(bspline_gen_s(nland, neval).s, Y).X, neval |-> neval]

\* get_stk_from_bspline(Y, neval=None); has_neval is FALSE for neval=None and
\* params is the record defaultps() returns
get_stk_from_bspline(Y, has_neval, neval_arg, params) ==
    LET nland == Len(Y)
        min_neval == params.spline_min_neval
        max_neval == params.spline_max_neval
        spl_grain == params.spline_grain
        s0 == bspline_gen_s(nland, min_neval).s
        stk == bspline_eval(s0, Y).X
        dist == dist_along_traj(stk)
        neval1 == Ceil(RDiv(dist, spl_grain))
        neval2 == Max(neval1, min_neval)
        neval3 == Min(neval2, max_neval)
        neval == IF has_neval THEN neval_arg ELSE neval3
        s == bspline_gen_s(nland, neval).s
    IN  [X |-> bspline_eval(s, Y).X, neval |-> neval]

(***************************************************************************)
(* torch.distributions.Normal and extended log-probabilities               *)
(***************************************************************************)
NegInf == [kind |-> "-inf"]

PosInf == [kind |-> "+inf"]

NanLL == [kind |-> "nan"]

\* a finite log-probability: the log-density of the distribution at x minus the
\* log of mass, kept in symbolic form (mass in units of 1/100000; 100000, that
\* is 1, when no correction was applied)
Fin(x, mass) == [kind |-> "fin", x |-> x, mass |-> mass]

\* the standard Normal cdf at k half-deviations, k >= 0, in units of 1/100000;
\* as in floating point it is exactly 1 far enough into the tail
PhiUpper(k) ==
    CASE k = 0 -> 50000 [] k = 1 -> 69146 [] k = 2 -> 84134 [] k = 3 -> 93319
      [] k = 4 -> 97725 [] k = 5 -> 99379 [] k = 6 -> 99865 [] k = 7 -> 99977
      [] k = 8 -> 99997 [] OTHER -> 100000

\* (x - loc) / scale in half-deviations, rounded down
HalfDeviations(dst, x) ==
    (2 * (x.n * dst.loc.d - dst.loc.n * x.d) * dst.scale.d)
        \div (x.d * dst.loc.d * dst.scale.n)

\* Normal(loc, scale).cdf(x)
Normal_cdf(dst, x) ==
    IF HalfDeviations(dst, x) >= 0 THEN PhiUpper(HalfDeviations(dst, x))
    ELSE 100000 - PhiUpper(-HalfDeviations(dst, x))

\* Normal(loc, scale).log_prob(x): finite for every finite x
Normal_log_prob(dst, x) == Fin(x, 100000)

\* ll - torch.log(p): log(0) is -inf and log of a negative number is nan
SubLog(lp, p) ==
    IF p = 0 THEN PosInf
    ELSE IF p < 0 THEN NanLL
    ELSE Fin(lp.x, p)

(***************************************************************************)
(* relation.py                                                             *)
(***************************************************************************)
categories_allowed == {"unihist", "start", "end", "mid"}

NoRel == [cls |-> "None"]

NoToken == [cls |-> "None"]

HasAttr(obj, name) == name \in DOMAIN obj

Ok(obj) == [err |-> "none", obj |-> obj]

Raise(e) == [err |-> e, obj |-> NoRel]

\* Relation.__init__(category, lib)
Relation_init(cls, category, lib) ==
    IF category \notin categories_allowed THEN Raise("AssertionError")
    ELSE Ok([cls |-> cls, category |-> category])

\* RelationIndependent.__init__(category, gpos, lib)
RelationIndependent_init(cls, category, gpos, lib) ==
    LET base == Relation_init(cls, category, lib)
    IN  IF base.err # "none" THEN base
        ELSE IF category # "unihist" THEN Raise("AssertionError")
        ELSE Ok(base.obj @@ [gpos |-> gpos])

\* the bug: the second assertion of RelationAttach.__init__ is missing
RelationAttach_init_mut(cls, category, attach_ix, lib) ==
    LET base == Relation_init(cls, category, lib)
    IN  IF base.err # "none" THEN base
        ELSE Ok(base.obj @@ [attach_ix |-> attach_ix])

\* RelationAttach.__init__(category, attach_ix, lib)
RelationAttach_init(cls, category, attach_ix, lib) ==
    LET base == Relation_init(cls, category, lib)
    IN  IF base.err # "none" THEN base
        ELSE IF category \notin {"start", "end", "mid"} THEN Raise("AssertionError")
        ELSE Ok(base.obj @@ [attach_ix |-> attach_ix])

\* RelationAttachAlong.__init__(category, attach_ix, attach_subix, eval_spot, lib)
RelationAttachAlong_init(cls, category, attach_ix, attach_subix, eval_spot, lib) ==
    LET base == RelationAttach_init(cls, category, attach_ix, lib)
    IN  IF base.err # "none" THEN base
        ELSE IF category # "mid" THEN Raise("AssertionError")
        ELSE Ok(base.obj @@
                [attach_subix |-> attach_subix, ncpt |-> lib.ncpt,
                 eval_spot_dist |-> [loc |-> eval_spot, scale |-> lib.sigma_attach]])

\* the bug: 'end' is missing from the list of categories without extra fields
RelationToken_init_mut(r, kwargs) ==
    IF r.category \in {"unihist", "start"}
    THEN IF DOMAIN kwargs # {} THEN Raise("AssertionError") ELSE Ok([rel |-> r])
    ELSE IF DOMAIN kwargs # {"eval_spot_token"} THEN Raise("AssertionError")
         ELSE Ok([rel |-> r, eval_spot_token |-> kwargs.eval_spot_token])

\* RelationToken.__init__(rel, **kwargs); kwargs is a record, <<>> when empty
RelationToken_init(r, kwargs) ==
    IF r.category \in {"unihist", "start", "end"}
    THEN IF DOMAIN kwargs # {} THEN Raise("AssertionError") ELSE Ok([rel |-> r])
    ELSE IF DOMAIN kwargs # {"eval_spot_token"} THEN Raise("AssertionError")
         ELSE Ok([rel |-> r, eval_spot_token |-> kwargs.eval_spot_token])

\* Python sequence indexing seq[ix], negative indices counting from the end
PyInRange(seq, ix) == -Len(seq) <= ix /\ ix < Len(seq)

PyGet(seq, ix) == seq[IF ix < 0 THEN Len(seq) + ix + 1 ELSE ix + 1]

Loc(p) == [err |-> "none", loc |-> p]

LocRaise(e) == [err |-> e, loc |-> <<NaN, NaN>>]

\* the bug: 'end' takes the last point of the first sub-trajectory
get_attach_point_mut(tok, prev_parts) ==
    LET r == tok.rel
    IN  IF r.category = "unihist"
        THEN IF HasAttr(r, "gpos") THEN Loc(r.gpos) ELSE LocRaise("AttributeError")
        ELSE IF ~HasAttr(r, "attach_ix") THEN LocRaise("AttributeError")
        ELSE IF ~PyInRange(prev_parts, r.attach_ix) THEN LocRaise("IndexError")
        ELSE LET prev == PyGet(prev_parts, r.attach_ix)
             IN  IF r.category = "start"
                 THEN IF ~HasAttr(prev, "motor") THEN LocRaise("AttributeError")
                      ELSE Loc(PyGet(PyGet(prev.motor, 0), 0))
                 ELSE IF r.category = "end"
                 THEN IF ~HasAttr(prev, "motor") THEN LocRaise("AttributeError")
                      ELSE Loc(PyGet(PyGet(prev.motor, 0), -1))
                 ELSE IF r.category # "mid" THEN LocRaise("AssertionError")
                 ELSE IF ~HasAttr(prev, "motor_spline") \/ ~HasAttr(r, "attach_subix")
                      THEN LocRaise("AttributeError")
                 ELSE IF ~PyInRange(prev.motor_spline, r.attach_subix)
                      THEN LocRaise("IndexError")
                 ELSE LET bspline == PyGet(prev.motor_spline, r.attach_subix)
                      IN  Loc(bspline_eval(<<tok.eval_spot_token>>, bspline).X[1])

\* RelationToken.get_attach_point(prev_parts).  prev.motor is a sequence of
\* sub-trajectories, prev.motor_spline[:, :, k] the control points of sub-curve k;
\* the 0-d eval_spot_token is viewed as a parameter vector of length 1 and the
\* (1, 2) result squeezed to a point.
get_attach_point(tok, prev_parts) ==
    LET r == tok.rel
    IN  IF r.category = "unihist"
        THEN IF HasAttr(r, "gpos") THEN Loc(r.gpos) ELSE LocRaise("AttributeError")
        ELSE IF ~HasAttr(r, "attach_ix") THEN LocRaise("AttributeError")
        ELSE IF ~PyInRange(prev_parts, r.attach_ix) THEN LocRaise("IndexError")
        ELSE LET prev == PyGet(prev_parts, r.attach_ix)
             IN  IF r.category = "start"
                 THEN IF ~HasAttr(prev, "motor") THEN LocRaise("AttributeError")
                      ELSE Loc(PyGet(PyGet(prev.motor, 0), 0))
                 ELSE IF r.category = "end"
                 THEN IF ~HasAttr(prev, "motor") THEN LocRaise("AttributeError")
                      ELSE Loc(PyGet(PyGet(prev.motor, -1), -1))
                 ELSE IF r.category # "mid" THEN LocRaise("AssertionError")
                 ELSE IF ~HasAttr(prev, "motor_spline") \/ ~HasAttr(r, "attach_subix")
                      THEN LocRaise("AttributeError")
                 ELSE IF ~PyInRange(prev.motor_spline, r.attach_subix)
                      THEN LocRaise("IndexError")
                 ELSE LET bspline == PyGet(prev.motor_spline, r.attach_subix)
                      IN  Loc(bspline_eval(<<tok.eval_spot_token>>, bspline).X[1])

\* loc = base + self.rel.loc_dist.sample(), unless get_attach_point raised
AddOffset(base, offset) ==
    IF base.err # "none" THEN base
    ELSE Loc(<<RAdd(base.loc[1], offset[1]), RAdd(base.loc[2], offset[2])>>)

\* RelationToken.sample_location(prev_parts), offset being what
\* rel.loc_dist.sample() returned
sample_location(tok, prev_parts, offset) ==
    IF \E k \in DOMAIN prev_parts : ~prev_parts[k].isPartToken
    THEN LocRaise("AssertionError")
    ELSE AddOffset(get_attach_point(tok, prev_parts), offset)

\* the bug: the bounds themselves are rejected
score_eval_spot_token_mut(r, v) ==
    LET b == bspline_gen_s(r.ncpt, 1)
    IN  IF RLe(v, b.lb) \/ RLe(b.ub, v) THEN NegInf
        ELSE SubLog(Normal_log_prob(r.eval_spot_dist, v),
                    Normal_cdf(r.eval_spot_dist, b.ub) - Normal_cdf(r.eval_spot_dist, b.lb))

\* RelationAttachAlong.score_eval_spot_token(eval_spot_token)
score_eval_spot_token(r, v) ==
    LET b == bspline_gen_s(r.ncpt, 1)
        lb == b.lb
        ub == b.ub
    IN  IF RLt(v, lb) \/ RLt(ub, v) THEN NegInf
        ELSE LET ll0 == Normal_log_prob(r.eval_spot_dist, v)
                 p_within == Normal_cdf(r.eval_spot_dist, ub)
                               - Normal_cdf(r.eval_spot_dist, lb)
             IN  SubLog(ll0, p_within)

LL(v) == [err |-> "none", ll |-> v]

\* torch.tensor(0.)
Zero == [kind |-> "fin", x |-> RI(0), mass |-> 100000]

\* Relation.score_token(token) and its override RelationAttachAlong.score_token
score_token(r, tok) ==
    IF r.cls = "RelationAttachAlong"
    THEN IF ~HasAttr(tok, "eval_spot_token") THEN [err |-> "AssertionError", ll |-> NanLL]
         ELSE LL(score_eval_spot_token(r, tok.eval_spot_token))
    ELSE LL(Zero)

(***************************************************************************)
(* Inputs of the spline operations                                         *)
(***************************************************************************)
Points == {<<RI(0), RI(0)>>, <<RI(3), RI(0)>>, <<RI(0), RI(2)>>}

\* control-point matrices (nland, 2) with 1 <= nland <= MaxLand
Ys == UNION {[1..n -> Points] : n \in 1..MaxLand}

\* control points on one horizontal or one vertical line
CollinearYs ==
    {Y \in Ys : \/ \A c \in DOMAIN Y : Y[c][2] = Y[1][2]
                \/ \A c \in DOMAIN Y : Y[c][1] = Y[1][1]}

\* scalar parameters on a half-unit grid, inside and outside [2, nland + 1]
GridS == {R(h, 2) : h \in 0..(2 * (MaxLand + 3))}

\* the records defaultps() may return
ParamSets ==
    [spline_min_neval : 1..3, spline_max_neval : 1..MaxEval,
     spline_grain : {R(1, 2), RI(1), R(3, 2)}]

NoRet == [op |-> "none"]

(***************************************************************************)
(* The spline operations.  A behaviour of SplineSpec is one call: Init     *)
(* draws the function and its arguments, the action applies the function   *)
(* as splines.py computes it and keeps what it returned in ret.            *)
(***************************************************************************)
GenSCalls ==
    {[op |-> "bspline_gen_s", st |-> "call", nland |-> nland, neval |-> neval] :
        nland \in 1..MaxLand, neval \in 0..MaxEval}

EvalCalls ==
    UNION {{[op |-> "bspline_eval", st |-> "call", s |-> s, Y |-> Y] :
              s \in {<<x>> : x \in GridS}
                    \cup {bspline_gen_s(Len(Y), k).s : k \in 1..MaxEval}} :
           Y \in Ys}

GetStkCalls ==
    {[op |-> "get_stk_from_bspline", st |-> "call", Y |-> Y, has_neval |-> TRUE,
      neval |-> neval, params |-> params] :
        Y \in CollinearYs, neval \in 0..MaxEval,
        params \in {q \in ParamSets : q.spline_min_neval = 2 /\ q.spline_grain = RI(1)}}
    \cup
    {[op |-> "get_stk_from_bspline", st |-> "call", Y |-> Y, has_neval |-> FALSE,
      neval |-> 0, params |-> params] : Y \in CollinearYs, params \in ParamSets}

SplineInit ==
    /\ ret \in GenSCalls \cup EvalCalls \cup GetStkCalls
    /\ rel = NoRel
    /\ token = NoToken
    /\ pc = "idle"
    /\ source = <<>>
    /\ pos = 1
    /\ ll = NegInf
    /\ eval_spot_token = NaN

Call_bspline_gen_s ==
    /\ ret.op = "bspline_gen_s" /\ ret.st = "call"
    /\ LET r == bspline_gen_s(ret.nland, ret.neval)
       IN  ret' = [op |-> "bspline_gen_s", st |-> "done", nland |-> ret.nland,
                   neval |-> ret.neval, s |-> r.s, lb |-> r.lb, ub |-> r.ub]
    /\ UNCHANGED relvars

Call_bspline_eval ==
    /\ ret.op = "bspline_eval" /\ ret.st = "call"
    /\ LET r == bspline_eval(ret.s, ret.Y)
       IN  ret' = [op |-> "bspline_eval", st |-> "done", s |-> ret.s, Y |-> ret.Y,
                   X |-> r.X, Cof |-> r.Cof, A |-> r.A]
    /\ UNCHANGED relvars

Call_get_stk_from_bspline ==
    /\ ret.op = "get_stk_from_bspline" /\ ret.st = "call"
    /\ LET r == get_stk_from_bspline(ret.Y, ret.has_neval, ret.neval, ret.params)
       IN  ret' = [ret EXCEPT !.st = "done"] @@ [X |-> r.X]
    /\ UNCHANGED relvars

SplineNext ==
    \/ Call_bspline_gen_s
    \/ Call_bspline_eval
    \/ Call_get_stk_from_bspline

SplineSpec == SplineInit /\ [][SplineNext]_vars

(***************************************************************************)
(* Claims about splines.py, checked under SplineSpec                       *)
(***************************************************************************)
Done(op) == ret.op = op /\ ret.st = "done"

\* C7: bspline_gen_s(nland, neval) reports lb = 2 and ub = nland + 1; for
\* neval = 1 it returns the single value 2; for neval = k >= 2 it returns exactly
\* k evenly spaced, non-decreasing values, the first 2 and the last nland + 1,
\* all inside [2, nland + 1].
C7_GenS ==
    Done("bspline_gen_s") =>
        LET s == ret.s
            k == ret.neval
        IN  /\ ret.lb = RI(2)
            /\ ret.ub = RI(ret.nland + 1)
            /\ k = 1 => s = <<RI(2)>>
            /\ k >= 2 =>
                /\ Len(s) = k
                /\ s[1] = RI(2)
                /\ s[k] = RI(ret.nland + 1)
                /\ \A j \in 1..(k - 1) : RLe(s[j], s[j + 1])
                /\ \A j \in 1..(k - 2) :
                      RSub(s[j + 1], s[j]) = RSub(s[j + 2], s[j + 1])
                /\ \A j \in 1..k : RLe(RI(2), s[j]) /\ RLe(s[j], RI(ret.nland + 1))

\* a call with k >= 3 values that are not all integers
C7_Witness ==
    /\ Done("bspline_gen_s")
    /\ ret.neval >= 3
    /\ \E j \in DOMAIN ret.s : ret.s[j].d > 1

InDomain(x, nland) == RLe(RI(2), x) /\ RLe(x, RI(nland + 1))

NonZeros(row) == Cardinality({c \in DOMAIN row : row[c] # RI(0)})

AdaptiveCount(Y, params) ==
    LET L == dist_along_traj(
                 bspline_eval(bspline_gen_s(Len(Y), params.spline_min_neval).s, Y).X)
    IN  Min(Max(Ceil(RDiv(L, params.spline_grain)), params.spline_min_neval),
            params.spline_max_neval)

\* C9: with no neval given, get_stk_from_bspline returns exactly
\* n = min(max(ceil(L / spline_grain), spline_min_neval), spline_max_neval) rows,
\* and spline_min_neval <= n <= spline_max_neval whenever min <= max; with an
\* explicit neval it returns exactly that many rows, unclamped.
C9_AdaptiveCount ==
    Done("get_stk_from_bspline") =>
        LET p == ret.params
            n == AdaptiveCount(ret.Y, p)
        IN  /\ ret.has_neval => Len(ret.X) = ret.neval
            /\ ~ret.has_neval =>
                /\ Len(ret.X) = n
                /\ p.spline_min_neval <= p.spline_max_neval =>
                      p.spline_min_neval <= n /\ n <= p.spline_max_neval

\* an adaptive call whose count comes from the arc length, strictly between the
\* two thresholds
C9_Witness ==
    /\ Done("get_stk_from_bspline")
    /\ ~ret.has_neval
    /\ ret.params.spline_min_neval < Len(ret.X)
    /\ Len(ret.X) < ret.params.spline_max_neval

(***************************************************************************)
(* Inputs of the relation operations                                       *)
(***************************************************************************)
Categories == categories_allowed \cup {"bogus"}

Pt(x, y) == <<RI(x), RI(y)>>

GposVals == {Pt(3, 4), Pt(0, 0)}

AttachIxVals == {-1, 0, 1}

AttachSubixVals == {0, 1}

\* type-level eval spots: at the lower bound, inside, and far from the domain
EvalSpotVals == {RI(2), R(5, 2), RI(9)}

Libs == [ncpt : 1..MaxNcpt, sigma_attach : {R(1, 2), RI(1)}]

\* what eval_spot_dist.sample() can return for a relation with ncpt landmarks:
\* below lb, lb, between the bounds (above ub when ncpt = 1), ub, above ub
DrawVals(ncpt) == {R(3, 2), RI(2), R(5, 2), RI(ncpt + 1), R(2 * ncpt + 3, 2)}

\* previous parts: PartToken objects with motor and motor_spline, and an object
\* that is no PartToken
PartA ==
    [isPartToken |-> TRUE,
     motor |-> << <<Pt(1, 1), Pt(2, 1)>>, <<Pt(2, 1), Pt(2, 3), Pt(0, 3)>> >>,
     motor_spline |-> << <<Pt(1, 1), Pt(2, 1), Pt(2, 1)>>,
                         <<Pt(2, 1), Pt(2, 3), Pt(0, 3)>> >>]

PartB ==
    [isPartToken |-> TRUE,
     motor |-> << <<Pt(0, 0), Pt(0, 2), Pt(3, 2)>> >>,
     motor_spline |-> << <<Pt(0, 0), Pt(0, 2), Pt(3, 2)>> >>]

NotAPart == [isPartToken |-> FALSE]

PrevPartsVals ==
    {<<>>, <<PartA>>, <<PartA, PartB>>, <<PartB, PartA>>, <<PartA, NotAPart>>}

OffsetVals == {Pt(0, 0), Pt(1, -1)}

\* keyword arguments handed to RelationToken(rel, **kwargs)
KwargsVals(r) ==
    {<<>>, [other |-> RI(2)]}
    \cup {[eval_spot_token |-> v] : v \in DrawVals(MaxNcpt)}
    \cup {[eval_spot_token |-> RI(2), other |-> RI(2)]}

CtorCalls ==
    {[op |-> "__init__", st |-> "call", cls |-> "Relation", category |-> c,
      lib |-> lib] : c \in Categories, lib \in {l \in Libs : l.ncpt = 1}}
    \cup
    {[op |-> "__init__", st |-> "call", cls |-> "RelationIndependent", category |-> c,
      gpos |-> g, lib |-> lib] :
        c \in Categories, g \in GposVals, lib \in {l \in Libs : l.ncpt = 1}}
    \cup
    {[op |-> "__init__", st |-> "call", cls |-> "RelationAttach", category |-> c,
      attach_ix |-> ix, lib |-> lib] :
        c \in Categories, ix \in AttachIxVals, lib \in {l \in Libs : l.ncpt = 1}}
    \cup
    {[op |-> "__init__", st |-> "call", cls |-> "RelationAttachAlong", category |-> c,
      attach_ix |-> ix, attach_subix |-> sx, eval_spot |-> e, lib |-> lib] :
        c \in Categories, ix \in AttachIxVals, sx \in AttachSubixVals,
        e \in EvalSpotVals, lib \in Libs}

(***************************************************************************)
(* The relation operations.  A behaviour of Spec constructs one relation,  *)
(* obtains one token from it (by sample_token or by constructing it) and   *)
(* calls one method; an exception ends the behaviour.                      *)
(***************************************************************************)
Init ==
    /\ ret \in CtorCalls
    /\ rel = NoRel
    /\ token = NoToken
    /\ pc = "new"
    /\ source = <<>>
    /\ pos = 1
    /\ ll = NegInf
    /\ eval_spot_token = NaN

Constructed(r) ==
    /\ rel' = r.obj
    /\ pc' = IF r.err = "none" THEN "idle" ELSE "done"
    /\ ret' = [op |-> "__init__", st |-> "done", err |-> r.err, cls |-> ret.cls,
               category |-> ret.category]
    /\ UNCHANGED <<token, source, pos, ll, eval_spot_token>>

New_Relation ==
    /\ pc = "new" /\ ret.cls = "Relation"
    /\ Constructed(Relation_init(ret.cls, ret.category, ret.lib))

New_RelationIndependent ==
    /\ pc = "new" /\ ret.cls = "RelationIndependent"
    /\ Constructed(RelationIndependent_init(ret.cls, ret.category, ret.gpos, ret.lib))

New_RelationAttach ==
    /\ pc = "new" /\ ret.cls = "RelationAttach"
    /\ Constructed(RelationAttach_init(ret.cls, ret.category, ret.attach_ix, ret.lib))

New_RelationAttachAlong ==
    /\ pc = "new" /\ ret.cls = "RelationAttachAlong"
    /\ Constructed(RelationAttachAlong_init(ret.cls, ret.category, ret.attach_ix,
                                            ret.attach_subix, ret.eval_spot, ret.lib))

\* a token was built, or its construction raised
Built(op, kwargs, r) ==
    /\ token' = r.obj
    /\ pc' = IF r.err = "none" THEN "idle" ELSE "done"
    /\ ret' = [op |-> op, st |-> "done", err |-> r.err, kwargs |-> kwargs]

\* RelationToken(rel, **kwargs) called directly
New_RelationToken ==
    /\ pc = "idle" /\ token = NoToken
    /\ \E kwargs \in KwargsVals(rel) :
          Built("RelationToken", kwargs, RelationToken_init(rel, kwargs))
    /\ UNCHANGED <<rel, source, pos, ll, eval_spot_token>>

\* Relation.sample_token(), inherited by RelationIndependent and RelationAttach
Relation_sample_token ==
    /\ pc = "idle" /\ token = NoToken
    /\ rel.cls # "RelationAttachAlong"
    /\ Built("sample_token", <<>>, RelationToken_init(rel, <<>>))
    /\ UNCHANGED <<rel, source, pos, ll, eval_spot_token>>

\* RelationAttachAlong.sample_token() enters sample_eval_spot_token: ll = -inf.
\* source is the sequence of values eval_spot_dist.sample() is going to return,
\* repeated cyclically.
RelationAttachAlong_sample_token ==
    /\ pc = "idle" /\ token = NoToken
    /\ rel.cls = "RelationAttachAlong"
    /\ source' \in [1..MaxDraws -> DrawVals(rel.ncpt)]
    /\ pos' = 1
    /\ ll' = NegInf
    /\ eval_spot_token' = NaN
    /\ pc' = "sampling"
    /\ ret' = [op |-> "sample_token", st |-> "call"]
    /\ UNCHANGED <<rel, token>>

\* the bug: the loop runs while ll is not -inf
LoopTest_mut(v) == v # NegInf

\* the test of the loop 'while ll == -float("inf")'
LoopTest(v) == v = NegInf

\* one iteration of the loop: draw and score
sample_eval_spot_token_iter ==
    /\ pc = "sampling"
    /\ LoopTest(ll)
    /\ eval_spot_token' = source[pos]
    /\ ll' = score_eval_spot_token(rel, source[pos])
    /\ pos' = (pos % Len(source)) + 1
    /\ UNCHANGED <<ret, rel, token, pc, source>>

\* the loop ends: sample_eval_spot_token returns eval_spot_token and
\* sample_token builds the token from it
sample_eval_spot_token_return ==
    /\ pc = "sampling"
    /\ ~LoopTest(ll)
    /\ Built("sample_token", [eval_spot_token |-> eval_spot_token],
             RelationToken_init(rel, [eval_spot_token |-> eval_spot_token]))
    /\ source' = <<>>
    /\ pos' = 1
    /\ ll' = NegInf
    /\ eval_spot_token' = NaN
    /\ UNCHANGED rel

Call_score_token ==
    /\ pc = "idle" /\ token # NoToken
    /\ LET r == score_token(rel, token)
       IN  ret' = [op |-> "score_token", st |-> "done", err |-> r.err, ll |-> r.ll,
                   via |-> ret.op]
    /\ pc' = "done"
    /\ UNCHANGED <<rel, token, source, pos, ll, eval_spot_token>>

Call_score_eval_spot_token ==
    /\ pc = "idle" /\ token = NoToken
    /\ rel.cls = "RelationAttachAlong"
    /\ \E v \in DrawVals(rel.ncpt) :
          ret' = [op |-> "score_eval_spot_token", st |-> "done", v |-> v,
                  ll |-> score_eval_spot_token(rel, v)]
    /\ pc' = "done"
    /\ UNCHANGED <<rel, token, source, pos, ll, eval_spot_token>>

Call_get_attach_point ==
    /\ pc = "idle" /\ token # NoToken
    /\ \E prev_parts \in PrevPartsVals :
          LET r == get_attach_point(token, prev_parts)
          IN  ret' = [op |-> "get_attach_point", st |-> "done", err |-> r.err,
                      loc |-> r.loc, prev_parts |-> prev_parts]
    /\ pc' = "done"
    /\ UNCHANGED <<rel, token, source, pos, ll, eval_spot_token>>

Call_sample_location ==
    /\ pc = "idle" /\ token # NoToken
    /\ \E prev_parts \in PrevPartsVals, offset \in OffsetVals :
          LET r == sample_location(token, prev_parts, offset)
          IN  ret' = [op |-> "sample_location", st |-> "done", err |-> r.err,
                      loc |-> r.loc, prev_parts |-> prev_parts, offset |-> offset]
    /\ pc' = "done"
    /\ UNCHANGED <<rel, token, source, pos, ll, eval_spot_token>>

Next ==
    \/ New_Relation
    \/ New_RelationIndependent
    \/ New_RelationAttach
    \/ New_RelationAttachAlong
    \/ New_RelationToken
    \/ Relation_sample_token
    \/ RelationAttachAlong_sample_token
    \/ sample_eval_spot_token_iter
    \/ sample_eval_spot_token_return
    \/ Call_score_token
    \/ Call_score_eval_spot_token
    \/ Call_get_attach_point
    \/ Call_sample_location

Spec == Init /\ [][Next]_vars

\* the interpreter keeps executing the loop of sample_eval_spot_token
FairSpec ==
    Spec /\ WF_vars(sample_eval_spot_token_iter) /\ WF_vars(sample_eval_spot_token_return)

(***************************************************************************)
(* Claims about relation.py, checked under Spec (C6 under FairSpec)        *)
(***************************************************************************)
\* C1: RelationToken(rel, **kwargs) succeeds for a 'unihist', 'start' or 'end'
\* relation iff no keyword field is passed and for a 'mid' relation iff the
\* keyword fields are exactly {eval_spot_token}; every other combination raises
\* at construction; a built token carries eval_spot_token iff its relation's
\* category is 'mid'.
C1_TokenFields ==
    /\ Done("RelationToken") =>
        /\ rel.category \in {"unihist", "start", "end"} =>
              (ret.err = "none" <=> DOMAIN ret.kwargs = {})
        /\ rel.category = "mid" =>
              (ret.err = "none" <=> DOMAIN ret.kwargs = {"eval_spot_token"})
        /\ ret.err \in {"none", "AssertionError"}
        /\ ret.err # "none" => token = NoToken
        /\ ret.err = "none" => token # NoToken /\ token.rel = rel
    /\ token # NoToken =>
          (HasAttr(token, "eval_spot_token") <=> token.rel.category = "mid")

\* an 'end' relation handed an eval_spot_token: construction raised
C1_Witness ==
    /\ Done("RelationToken")
    /\ rel.category = "end"
    /\ DOMAIN ret.kwargs = {"eval_spot_token"}
    /\ ret.err = "AssertionError"

\* the categories each class accepts
AcceptedBy(cls, category) ==
    CASE cls = "Relation" -> category \in {"unihist", "start", "end", "mid"}
      [] cls = "RelationIndependent" -> category = "unihist"
      [] cls = "RelationAttach" -> category \in {"start", "end", "mid"}
      [] cls = "RelationAttachAlong" -> category = "mid"

\* C2: constructing a relation fails for a category outside the four allowed
\* ones; RelationIndependent accepts only 'unihist', RelationAttach only 'start',
\* 'end' or 'mid', RelationAttachAlong only 'mid'.  So every relation that exists
\* has an allowed category, and get_attach_point never fails its category
\* assertion.
C2_CategoryValidated ==
    /\ Done("__init__") =>
        /\ ret.err = "none" <=> AcceptedBy(ret.cls, ret.category)
        /\ ret.err = "none" => rel # NoRel /\ rel.category = ret.category
        /\ ret.err # "none" => ret.err = "AssertionError" /\ rel = NoRel
    /\ rel # NoRel => rel.category \in categories_allowed /\ AcceptedBy(rel.cls, rel.category)
    /\ Done("get_attach_point") => ret.err # "AssertionError"

\* RelationAttachAlong refused an allowed category that is not 'mid'
C2_Witness ==
    /\ Done("__init__")
    /\ ret.cls = "RelationAttachAlong"
    /\ ret.category = "start"
    /\ ret.err = "AssertionError"
    /\ rel = NoRel

Last(seq) == seq[Len(seq)]

\* prev_parts[ix] of the claim, for a valid index
PartAt(prev_parts, ix) ==
    IF ix < 0 THEN prev_parts[Len(prev_parts) + ix + 1] ELSE prev_parts[ix + 1]

\* C3: get_attach_point resolves by category: 'unihist' returns the stored gpos
\* whatever the previous parts are (also none); 'start' the first point of the
\* first sub-trajectory of prev_parts[attach_ix]; 'end' the last point of its
\* last sub-trajectory; 'mid' the point bspline_eval gives at eval_spot_token on
\* the control points of sub-curve attach_subix.  sample_location returns the
\* attach point plus the drawn offset, so the attach point for a zero offset.
C3_AttachPoint ==
    /\ Done("get_attach_point") =>
        LET r == token.rel
            pp == ret.prev_parts
        IN  /\ (r.category = "unihist" /\ HasAttr(r, "gpos")) =>
                  ret.err = "none" /\ ret.loc = r.gpos
            /\ (/\ r.category # "unihist"
                /\ HasAttr(r, "attach_ix")
                /\ -Len(pp) <= r.attach_ix /\ r.attach_ix < Len(pp)
                /\ PartAt(pp, r.attach_ix).isPartToken) =>
                  LET prev == PartAt(pp, r.attach_ix)
                  IN  /\ r.category = "start" =>
                            ret.err = "none" /\ ret.loc = Head(Head(prev.motor))
                      /\ r.category = "end" =>
                            ret.err = "none" /\ ret.loc = Last(Last(prev.motor))
                      /\ (/\ r.category = "mid"
                          /\ HasAttr(r, "attach_subix")
                          /\ r.attach_subix < Len(prev.motor_spline)) =>
                            /\ ret.err = "none"
                            /\ ret.loc = bspline_eval(<<token.eval_spot_token>>,
                                             prev.motor_spline[r.attach_subix + 1]).X[1]
    /\ (Done("sample_location") /\ ret.err = "none") =>
        LET base == get_attach_point(token, ret.prev_parts)
        IN  /\ base.err = "none"
            /\ ret.loc = <<RAdd(base.loc[1], ret.offset[1]),
                           RAdd(base.loc[2], ret.offset[2])>>
            /\ ret.offset = Pt(0, 0) => ret.loc = base.loc

\* an 'end' relation attached to a part with two sub-trajectories
C3_Witness ==
    /\ Done("get_attach_point")
    /\ token.rel.category = "end"
    /\ ret.prev_parts = <<PartB, PartA>>
    /\ HasAttr(token.rel, "attach_ix")
    /\ token.rel.attach_ix = -1
    /\ ret.loc = Pt(0, 3)

\* C4: score_eval_spot_token returns -inf for every value strictly outside
\* [2, ncpt + 1]; for every value inside, both bounds included, it returns the
\* Normal log-density minus the log of the mass inside [2, ncpt + 1], which is
\* not -inf.
C4_ScoreEvalSpot ==
    Done("score_eval_spot_token") =>
        LET lb == RI(2)
            ub == RI(rel.ncpt + 1)
            d == rel.eval_spot_dist
        IN  /\ (RLt(ret.v, lb) \/ RLt(ub, ret.v)) => ret.ll = NegInf
            /\ (RLe(lb, ret.v) /\ RLe(ret.v, ub)) =>
                  /\ ret.ll # NegInf
                  /\ ret.ll = SubLog(Normal_log_prob(d, ret.v),
                                     Normal_cdf(d, ub) - Normal_cdf(d, lb))

\* the upper bound itself scored, with a finite result
C4_Witness ==
    /\ Done("score_eval_spot_token")
    /\ rel.ncpt >= 2
    /\ ret.v = RI(rel.ncpt + 1)
    /\ ret.ll.kind = "fin"

\* the first in-bounds value of a sequence of draws (0 when there is none)
FirstInBounds(src, ncpt) ==
    IF \E k \in DOMAIN src : InDomain(src[k], ncpt)
    THEN CHOOSE k \in DOMAIN src :
            /\ InDomain(src[k], ncpt)
            /\ \A j \in 1..(k - 1) : ~InDomain(src[j], ncpt)
    ELSE 0

\* C5: whatever the draws, the value sample_eval_spot_token returns lies in
\* [2, ncpt + 1], is the first draw that is in bounds (every draw before it was
\* out of bounds and discarded), and the token sample_token builds from it
\* scores above -inf under score_eval_spot_token and score_token.
C5_Sampler ==
    /\ (pc = "sampling" /\ ll # NegInf) =>
        LET k == FirstInBounds(source, rel.ncpt)
        IN  /\ InDomain(eval_spot_token, rel.ncpt)
            /\ k # 0
            /\ eval_spot_token = source[k]
            /\ pos = (k % Len(source)) + 1
    /\ (pc = "sampling" /\ ll = NegInf) =>
          ~InDomain(eval_spot_token, rel.ncpt)
    /\ (Done("sample_token") /\ rel.cls = "RelationAttachAlong") =>
        /\ ret.err = "none"
        /\ HasAttr(token, "eval_spot_token")
        /\ InDomain(token.eval_spot_token, rel.ncpt)
        /\ score_eval_spot_token(rel, token.eval_spot_token) # NegInf
        /\ score_token(rel, token).ll # NegInf
    /\ (Done("score_token") /\ ret.via = "sample_token"
        /\ rel.cls = "RelationAttachAlong") =>
          ret.err = "none" /\ ret.ll # NegInf

\* the first draw was out of bounds and discarded, the second is returned
C5_Witness ==
    /\ pc = "sampling"
    /\ ll # NegInf
    /\ ~InDomain(source[1], rel.ncpt)
    /\ eval_spot_token = source[2]

AllOut == \A k \in DOMAIN source : ~InDomain(source[k], rel.ncpt)

\* C6: sample_eval_spot_token returns if an in-bounds draw eventually occurs;
\* the loop has no iteration cap, so with a source that only yields
\* out-of-bounds values it never returns.
C6_Termination ==
    /\ (pc = "sampling" /\ ~AllOut) ~> (pc # "sampling")
    /\ []((pc = "sampling" /\ AllOut) => [](pc = "sampling"))

\* a source of out-of-bounds values only, consumed once around
C6_Witness ==
    /\ pc = "sampling"
    /\ AllOut
    /\ ll = NegInf
    /\ eval_spot_token = source[Len(source)]
    /\ pos = 1

\* C10: every relation whose construction succeeded produces a token:
\* sample_token returns a RelationToken without raising, and score_token of
\* that token is not -inf.
C10_EveryRelationSamples ==
    Done("sample_token") =>
        /\ ret.err = "none"
        /\ token # NoToken
        /\ score_token(rel, token).ll # NegInf

====
